---------------------------- MODULE Spec2Model ----------------------------
(***************************************************************************)
(* The dust jacket designer (src/src/app/designer/page.tsx): the book      *)
(* list, the shared artwork and its viewport, the re-clamp effects, the    *)
(* artwork acquisition with its object URLs, the proof pages and the PDF   *)
(* export, as one React component: hook state, a render that commits it,   *)
(* the passive effects of that commit, and the asynchronous completions.   *)
(*                                                                         *)
(* Lengths are exact rationals [n, d]: the source computes them in         *)
(* floating point, the model in the rationals the source approximates.     *)
(***************************************************************************)
EXTENDS Integers, Sequences, FiniteSets, TLC

(***************************************************************************)
(* Rational arithmetic: a number is [n |-> numerator, d |-> denominator],  *)
(* d > 0, in lowest terms (so that equal numbers are equal records).  The  *)
(* operations are functions, so that an operand is computed once.          *)
(***************************************************************************)
Euclid[a \in Nat, b \in Nat] == IF b = 0 THEN a ELSE Euclid[b, a % b]
GCD(a, b) == Euclid[a, b]

Abs(x) == IF x < 0 THEN -x ELSE x

Rational == [n : Int, d : Nat]

\* n/d in lowest terms, for d > 0.
Reduced[n \in Int, d \in Nat, g \in Nat] == [n |-> n \div g, d |-> d \div g]
Lowest[n \in Int, d \in Nat] ==
    IF n = 0 THEN [n |-> 0, d |-> 1] ELSE Reduced[n, d, GCD(Abs(n), d)]

R(n, d) == IF d < 0 THEN Lowest[-n, -d] ELSE Lowest[n, d]

FromInt(i) == [n |-> i, d |-> 1]
RZero == FromInt(0)
ROne == FromInt(1)

\* Sums and comparisons go through the least common denominator (g is the
\* greatest common divisor of the denominators) and products cancel
\* crosswise first, so intermediate values stay small.
SumOver[a \in Rational, b \in Rational, g \in Nat] ==
    Lowest[a.n * (b.d \div g) + b.n * (a.d \div g), (a.d \div g) * b.d]
Sum[a \in Rational, b \in Rational] ==
    IF a.d = b.d THEN Lowest[a.n + b.n, a.d] ELSE SumOver[a, b, GCD(a.d, b.d)]

Cancelled[a \in Rational, b \in Rational, g \in Nat, h \in Nat] ==
    [n |-> (a.n \div g) * (b.n \div h), d |-> (a.d \div h) * (b.d \div g)]
Product[a \in Rational, b \in Rational] ==
    IF a.n = 0 \/ b.n = 0 THEN RZero
    ELSE Cancelled[a, b, GCD(Abs(a.n), b.d), GCD(Abs(b.n), a.d)]

Inverse[a \in Rational] ==
    IF a.n < 0 THEN [n |-> -a.d, d |-> -a.n] ELSE [n |-> a.d, d |-> a.n]

AtMostOver[a \in Rational, b \in Rational, g \in Nat] ==
    a.n * (b.d \div g) <= b.n * (a.d \div g)
AtMost[a \in Rational, b \in Rational] ==
    IF a.d = b.d THEN a.n <= b.n ELSE AtMostOver[a, b, GCD(a.d, b.d)]

Larger[a \in Rational, b \in Rational] == IF AtMost[a, b] THEN b ELSE a
Smaller[a \in Rational, b \in Rational] == IF AtMost[a, b] THEN a ELSE b
Negated[a \in Rational] == [n |-> -a.n, d |-> a.d]
Ceiling[a \in Rational] == -((-a.n) \div a.d)

RNeg(a) == Negated[a]
RAdd(a, b) == Sum[a, b]
RSub(a, b) == Sum[a, Negated[b]]
RMul(a, b) == Product[a, b]
RDiv(a, b) == Product[a, Inverse[b]]
RLe(a, b) == AtMost[a, b]
RLt(a, b) == ~AtMost[b, a]
RMax(a, b) == Larger[a, b]
RMin(a, b) == Smaller[a, b]
RCeil(a) == Ceiling[a]
\* Body(value), with value computed once.
Let(value, Body(_)) == CHOOSE result \in {Body(v) : v \in {value}} : TRUE

RHalf(a) == RDiv(a, FromInt(2))

(***************************************************************************)
(* Module constants of page.tsx.                                           *)
(***************************************************************************)
MAX_BOOKS == 50
MIN_IMAGE_WIDTH == 3300
MIN_IMAGE_HEIGHT == 5100
BOOK_GAP_MM == 2
WRAP_MARGIN_CM == 2
WRAP_MARGIN_MM == WRAP_MARGIN_CM * 10
TOTAL_WRAP_ALLOWANCE_MM == WRAP_MARGIN_MM * 2
TOP_MARGIN_MM == 2
ZOOM_MAX == 200
ZOOM_FLOOR == 50
LARGE_TEXT_MAX_LINES == 3
LARGE_TEXT_MIN_FONT_SIZE == 16
LARGE_TEXT_DEFAULT_FONT_SIZE == 72
SMALL_TEXT_MAX_LINES == 3
SMALL_TEXT_DEFAULT_FONT_SIZE == 11
SMALL_TEXT_MIN_FONT_SIZE == 8
SMALL_TEXT_HORIZONTAL_PADDING_PX == 8

\* 3.7795275591 is 96 / 25.4 written to ten decimals ("96 DPI reference"):
\* the rational it rounds, 480/127.
MM_TO_PX == R(480, 127)
INCH_TO_MM == R(254, 10)
\* The PDF page of handleExportPdf: 8.5in x 11in.
PAGE_WIDTH_IN == R(85, 10)
PAGE_HEIGHT_IN == FromInt(11)
PAGE_WIDTH_MM == RMul(PAGE_WIDTH_IN, INCH_TO_MM)
PAGE_HEIGHT_MM == RMul(PAGE_HEIGHT_IN, INCH_TO_MM)
\* The page of the Section 4 page previews: 17in x 11in.
SPREAD_WIDTH_IN == FromInt(17)
LARGE_TEXT_LINE_HEIGHT_MULTIPLIER == R(115, 100)
SMALL_TEXT_LINE_HEIGHT_MULTIPLIER == R(11, 10)

mmToPx(value) == RMul(value, MM_TO_PX)
pxToMm(value) == RDiv(value, MM_TO_PX)

SPREAD_WIDTH_PX == mmToPx(RMul(SPREAD_WIDTH_IN, INCH_TO_MM))
SPREAD_HEIGHT_PX == mmToPx(PAGE_HEIGHT_MM)


(***************************************************************************)
(* The component's state.                                                  *)
(***************************************************************************)
VARIABLES
    books,            \* useState<BookSettings[]>: the ordered book list
    bookIdCounter,    \* module-level counter of createBook
    image,            \* useState<ImageAsset | null>
    imageNotice,      \* useState<string | null>
    zoom,             \* useState(100): zoom percent
    offsetX,          \* useState(0): horizontal offset percent
    offsetY,          \* useState(0): vertical offset percent (a rational)
    phase,            \* "render": state updated, render pending;
                      \* "effects": render committed, passive effects pending;
                      \* "idle": quiescent
    depMinZoom,       \* the [minZoomPercent] dependency the zoom effect last ran with
    depMinVOff,       \* the [minVerticalOffsetPercent] dependency of the offsetY effect
    depImage,         \* the [image] dependency of the revoke-on-cleanup effect
    renderedImage,    \* the image the committed render shows
    mounted,          \* the component is mounted
    pending,          \* artwork acquisitions in flight
    started,          \* number of acquisitions started so far
    settled,          \* start numbers of the acquisitions whose decode succeeded while mounted
    revokes,          \* revokes[u]: number of URL.revokeObjectURL calls on object URL u
                      \* (URLs are numbered 1.. in the order URL.createObjectURL made them)
    isExporting,      \* useState(false)
    exportError,      \* useState<string | null>
    exports,          \* the export jobs in flight
    exportsStarted,   \* number of exports started so far
    downloads,        \* number of PDF downloads triggered
    largeText,        \* useState(""): the large text as typed
    largeTextLayout,  \* useState: fontSize, lineHeight and lineCount of the large text
    largeTextWarning, \* useState<string | null>
    smallTextLayouts, \* useState: book id -> fontSize, lineHeight and lineCount
    depLargeText,     \* the dependencies the large text layout effect last ran with
    depBooks,         \* the [books] dependency the small text layout effect last ran with
    measure,          \* the layout engine behind the two measurement nodes
    zoomAdjusts,      \* history: setZoom calls of the zoom effect that changed the zoom
                      \* since the last handler ran (0 again once the effects settle)
    offsetYAdjusts    \* history: the same for the offsetY effect and the vertical offset

vars == <<books, bookIdCounter, image, imageNotice, zoom, offsetX, offsetY,
          phase, depMinZoom, depMinVOff, depImage, renderedImage, mounted,
          pending, started, settled, revokes,
          isExporting, exportError, exports, exportsStarted, downloads,
          largeText, largeTextLayout, largeTextWarning, smallTextLayouts,
          depLargeText, depBooks, measure, zoomAdjusts, offsetYAdjusts>>

bookVars == <<books, bookIdCounter>>
viewVars == <<zoom, offsetX, offsetY>>
depVars == <<depMinZoom, depMinVOff, depImage, renderedImage>>
artVars == <<pending, started, settled, revokes>>
exportVars == <<isExporting, exportError, exports, exportsStarted, downloads>>
chainVars == <<zoomAdjusts, offsetYAdjusts>>
textVars == <<largeText, largeTextLayout, largeTextWarning, smallTextLayouts,
              depLargeText, depBooks, measure>>

NoImage == [url |-> 0, width |-> 0, height |-> 0, name |-> "", mimeType |-> "", acq |-> 0]
HasImage == image # NoImage
NoNotice == "null"

(***************************************************************************)
(* Book stack geometry (the useMemo chain of the component body).          *)
(***************************************************************************)
RECURSIVE SumSpine(_)
SumSpine(bs) == IF bs = <<>> THEN 0 ELSE Head(bs).spineWidth + SumSpine(Tail(bs))

RECURSIVE MaxHeightOf(_)
MaxHeightOf(bs) ==
    IF bs = <<>> THEN 0
    ELSE LET m == MaxHeightOf(Tail(bs))
         IN  IF Head(bs).height > m THEN Head(bs).height ELSE m

\* A variant that counts a gap for every book, the last one included.
totalWidthMmWithTrailingGap(bs) == SumSpine(bs) + BOOK_GAP_MM * Len(bs)

totalWidthMmOf(bs) ==
    IF Len(bs) = 0 THEN 0
    ELSE LET booksWidth == SumSpine(bs)
             gaps == BOOK_GAP_MM * (IF Len(bs) - 1 > 0 THEN Len(bs) - 1 ELSE 0)
         IN  booksWidth + gaps

totalWidthMm == totalWidthMmOf(books)
maxHeightMm == MaxHeightOf(books)

totalWidthPx == RMax(mmToPx(FromInt(totalWidthMm)), ROne)
maxHeightPx == RMax(mmToPx(FromInt(maxHeightMm)), ROne)
targetArtworkHeightPx == mmToPx(FromInt(maxHeightMm))
topMarginPx == mmToPx(FromInt(TOP_MARGIN_MM))
wrapMarginPx == mmToPx(FromInt(WRAP_MARGIN_MM))

artworkBaseScale ==
    IF ~HasImage THEN ROne
    ELSE IF image.width = 0 \/ image.height = 0 THEN ROne
    ELSE IF RLe(targetArtworkHeightPx, RZero) THEN ROne
    ELSE RDiv(targetArtworkHeightPx, FromInt(image.height))

baseArtworkHeightPx ==
    IF ~HasImage THEN maxHeightPx
    ELSE RMul(FromInt(image.height), artworkBaseScale)

baseArtworkWidthPx ==
    IF ~HasImage THEN totalWidthPx
    ELSE RMul(FromInt(image.width), artworkBaseScale)

\* A variant that allows for the wrap margin on one side only.
minimumArtworkWidthOneSided == mmToPx(FromInt(totalWidthMm + WRAP_MARGIN_MM))

minimumArtworkWidthPx == mmToPx(FromInt(totalWidthMm + TOTAL_WRAP_ALLOWANCE_MM))
minimumArtworkHeightPx == mmToPx(FromInt(maxHeightMm + TOP_MARGIN_MM))

\* The unclamped percentage of minZoomPercent: Math.ceil(minScale * 100).
minPercent ==
    LET minScaleFromWidth == RDiv(minimumArtworkWidthPx, baseArtworkWidthPx)
        minScaleFromHeight ==
            IF RLt(RZero, baseArtworkHeightPx)
            THEN RDiv(minimumArtworkHeightPx, baseArtworkHeightPx)
            ELSE RZero
        minScale == RMax(minScaleFromWidth, minScaleFromHeight)
    IN  RCeil(RMul(minScale, FromInt(100)))

IMin(a, b) == IF a <= b THEN a ELSE b
IMax(a, b) == IF a >= b THEN a ELSE b

\* A variant without the final Math.min(Math.max(minPercent, 50), 200).
minZoomPercentUnclamped == IF ~HasImage THEN ZOOM_FLOOR ELSE minPercent

minZoomPercent ==
    IF ~HasImage THEN ZOOM_FLOOR
    ELSE IF baseArtworkWidthPx = RZero THEN ZOOM_FLOOR
    ELSE Let(minPercent, LAMBDA percent :
             IF percent <= 0 THEN ZOOM_FLOOR
             ELSE IMin(IMax(percent, ZOOM_FLOOR), ZOOM_MAX))

zoomScale == R(zoom, 100)
artworkDisplayWidth == RMul(baseArtworkWidthPx, zoomScale)
artworkDisplayHeight == RMul(baseArtworkHeightPx, zoomScale)
extraWidth == RMax(RSub(artworkDisplayWidth, totalWidthPx), RZero)
extraHeight == RMax(RSub(artworkDisplayHeight, maxHeightPx), RZero)
halfExtraWidth == RHalf(extraWidth)
maxHorizontalShiftPx == RMax(RSub(halfExtraWidth, wrapMarginPx), RZero)
translateXPx == RMul(maxHorizontalShiftPx, R(offsetX, 100))

\* A variant that is the computed value for every positive extra height,
\* without the branch for extra <= topMarginPx and without the clamp.
minVerticalOffsetUnclamped(hasImage, extra) ==
    IF ~hasImage THEN FromInt(-100)
    ELSE IF RLe(extra, RZero) THEN FromInt(-100)
    ELSE RAdd(FromInt(-100), RDiv(RMul(FromInt(200), topMarginPx), extra))

\* A variant that answers 50 for artwork without extra height.
minVerticalOffsetHalfWhenFlush(hasImage, extra) ==
    IF ~hasImage THEN FromInt(-100)
    ELSE IF RLe(extra, RZero) THEN FromInt(50)
    ELSE IF RLe(extra, topMarginPx) THEN FromInt(100)
    ELSE RMin(FromInt(100),
              RMax(FromInt(-100),
                   RAdd(FromInt(-100), RDiv(RMul(FromInt(200), topMarginPx), extra))))

\* A variant that leaves the whole range [-100, 100] to the offset.
minVerticalOffsetFree(hasImage, extra) == FromInt(-100)

\* The body of the minVerticalOffsetPercent memo, for its dependencies
\* image (present or not) and extraHeight.
minVerticalOffsetPercentOf(hasImage, extra) ==
    IF ~hasImage THEN FromInt(-100)
    ELSE IF RLe(extra, RZero) THEN FromInt(-100)
    ELSE IF RLe(extra, topMarginPx) THEN FromInt(100)
    ELSE LET computed ==
                 RAdd(FromInt(-100), RDiv(RMul(FromInt(200), topMarginPx), extra))
         IN  RMin(FromInt(100), RMax(FromInt(-100), computed))

minVerticalOffsetPercent ==
    Let(extraHeight, LAMBDA extra : minVerticalOffsetPercentOf(HasImage, extra))

constrainedOffsetY == RMin(FromInt(100), RMax(minVerticalOffsetPercent, offsetY))
translateYPx == RMul(RNeg(extraHeight), RDiv(constrainedOffsetY, FromInt(200)))


(***************************************************************************)
(* Bounds of the model.                                                    *)
(***************************************************************************)
MaxBooksModelled == 2     \* addBook is explored up to this many books
MaxBookId == 5            \* bookIdCounter is explored up to this value
MaxUrls == 2              \* object URLs created per run
MaxExports == 2           \* exports started per run

\* The book list is explored at both ends: up to MaxBooksModelled books, and
\* from one book short of MAX_BOOKS on.  NearCapCounter is the value of
\* bookIdCounter after the MAX_BOOKS - 2 addBook calls, each with its
\* render, that lead from the initial list to MAX_BOOKS - 1 books.
NearCap == Len(books) >= MAX_BOOKS - 1
NearCapCounter == 2 * (MAX_BOOKS - 2) + 1
IdBound == IF NearCap THEN NearCapCounter + MaxBookId - 1 ELSE MaxBookId

(***************************************************************************)
(* Number(rawValue) on the decimal strings of a number input: a string is  *)
(* the sequence of its characters.  "" is 0, an optional "-" and digits    *)
(* are that integer, anything else is NaN.                                 *)
(***************************************************************************)
Digits == <<"0", "1", "2", "3", "4", "5", "6", "7", "8", "9">>
IsDigit(c) == \E i \in 1..10 : Digits[i] = c
DigitValue(c) == (CHOOSE i \in 1..10 : Digits[i] = c) - 1

RECURSIVE DigitsValue(_, _)
DigitsValue(cs, acc) ==
    IF cs = <<>> THEN acc ELSE DigitsValue(Tail(cs), 10 * acc + DigitValue(Head(cs)))

AllDigits(cs) == cs # <<>> /\ \A i \in 1..Len(cs) : IsDigit(cs[i])

\* [finite |-> Number.isFinite(Number(raw)), value |-> Number(raw)]
ToNumber(raw) ==
    IF raw = <<>> THEN [finite |-> TRUE, value |-> 0]
    ELSE IF AllDigits(raw) THEN [finite |-> TRUE, value |-> DigitsValue(raw, 0)]
    ELSE IF Head(raw) = "-" /\ AllDigits(Tail(raw))
         THEN [finite |-> TRUE, value |-> -DigitsValue(Tail(raw), 0)]
    ELSE [finite |-> FALSE, value |-> 0]

(***************************************************************************)
(* The book list: createBook, updateBook, addBook, removeBook.             *)
(***************************************************************************)
DefaultColor == "#1d4ed8"

createBook(counter) ==
    [id |-> counter + 1, spineWidth |-> 30, coverWidth |-> 140, height |-> 210,
     color |-> DefaultColor, title |-> <<>>]

NumericFields == {"spineWidth", "coverWidth", "height"}

\* A variant of the map callback without the test of the book's id.
updatedWhateverTheId(book, id, field, raw) ==
    IF field = "color" THEN [book EXCEPT !.color = raw]
    ELSE IF field = "title" THEN [book EXCEPT !.title = raw]
    ELSE LET numeric == ToNumber(raw)
         IN  IF ~numeric.finite THEN book
             ELSE [book EXCEPT ![field] = IMax(numeric.value, 0)]

\* The book that updateBook's map callback returns for one book.
updatedBook(book, id, field, raw) ==
    IF book.id # id THEN book
    ELSE IF field = "color" THEN [book EXCEPT !.color = raw]
    ELSE IF field = "title" THEN [book EXCEPT !.title = raw]
    ELSE LET numeric == ToNumber(raw)
         IN  IF ~numeric.finite THEN book
             ELSE [book EXCEPT ![field] = IMax(numeric.value, 0)]

Quiescent == phase = "idle"
CanHandle == mounted /\ Quiescent

\* A state update schedules a render; an update that leaves the state as it
\* was is dropped (the queue is empty at idle, so React computes it eagerly).
Schedule(changed) == phase' = IF changed THEN "render" ELSE phase

updateBook(id, field, raw) ==
    /\ CanHandle
    /\ books' = [i \in 1..Len(books) |-> updatedBook(books[i], id, field, raw)]
    /\ Schedule(books' # books)
    /\ UNCHANGED <<chainVars, textVars, bookIdCounter, image, imageNotice, viewVars, depVars, mounted,
                   artVars, exportVars>>

\* addBook without the check of the list length against MAX_BOOKS.
addBookUncapped ==
    /\ CanHandle
    /\ (Len(books) < MaxBooksModelled \/ NearCap) /\ bookIdCounter < IdBound
    /\ books' = Append(books, createBook(bookIdCounter))
    /\ bookIdCounter' = bookIdCounter + 1
    /\ Schedule(TRUE)
    /\ UNCHANGED <<chainVars, textVars, image, imageNotice, viewVars, depVars, mounted, artVars, exportVars>>

addBook ==
    /\ CanHandle
    /\ Len(books) < MAX_BOOKS =>
           (Len(books) < MaxBooksModelled \/ NearCap) /\ bookIdCounter < IdBound
    /\ IF Len(books) >= MAX_BOOKS
       THEN UNCHANGED <<books, bookIdCounter>>
       ELSE /\ books' = Append(books, createBook(bookIdCounter))
            /\ bookIdCounter' = bookIdCounter + 1
    /\ Schedule(books' # books)
    /\ UNCHANGED <<chainVars, textVars, image, imageNotice, viewVars, depVars, mounted, artVars, exportVars>>

\* A variant that drops the first book whatever the id.
FilterOutFirst(bs, id) == Tail(bs)

RECURSIVE FilterOut(_, _)
FilterOut(bs, id) ==
    IF bs = <<>> THEN <<>>
    ELSE IF Head(bs).id # id THEN <<Head(bs)>> \o FilterOut(Tail(bs), id)
    ELSE FilterOut(Tail(bs), id)

\* removeBook without the check that more than one book is left.
removeBookUnguarded(id) ==
    /\ CanHandle
    /\ books' = FilterOut(books, id)
    /\ Schedule(books' # books)
    /\ UNCHANGED <<chainVars, textVars, bookIdCounter, image, imageNotice, viewVars, depVars, mounted,
                   artVars, exportVars>>

removeBook(id) ==
    /\ CanHandle
    /\ books' = IF Len(books) > 1 THEN FilterOut(books, id) ELSE books
    /\ Schedule(books' # books)
    /\ UNCHANGED <<chainVars, textVars, bookIdCounter, image, imageNotice, viewVars, depVars, mounted,
                   artVars, exportVars>>

(***************************************************************************)
(* The viewport controls: the three sliders and resetViewport.             *)
(***************************************************************************)
\* The zoom range input: min={minZoomPercent} max={200}, integer steps.
setZoomSlider(value) ==
    /\ CanHandle
    /\ value \in minZoomPercent..ZOOM_MAX
    /\ zoom' = value
    /\ Schedule(zoom' # zoom)
    /\ UNCHANGED <<chainVars, textVars, bookVars, image, imageNotice, offsetX, offsetY, depVars, mounted,
                   artVars, exportVars>>

\* The horizontal range input: min={-100} max={100}.
setOffsetXSlider(value) ==
    /\ CanHandle
    /\ value \in -100..100
    /\ offsetX' = value
    /\ Schedule(offsetX' # offsetX)
    /\ UNCHANGED <<chainVars, textVars, bookVars, image, imageNotice, zoom, offsetY, depVars, mounted,
                   artVars, exportVars>>

\* The vertical range input: min={minVerticalOffsetPercent} max={100}; the
\* handler clamps the value once more before storing it.
setOffsetYSlider(value) ==
    /\ CanHandle
    /\ RLe(minVerticalOffsetPercent, value) /\ RLe(value, FromInt(100))
    /\ offsetY' = RMin(FromInt(100), RMax(minVerticalOffsetPercent, value))
    /\ Schedule(offsetY' # offsetY)
    /\ UNCHANGED <<chainVars, textVars, bookVars, image, imageNotice, zoom, offsetX, depVars, mounted,
                   artVars, exportVars>>

resetViewport ==
    /\ CanHandle
    /\ zoom' = IF zoom < minZoomPercent THEN minZoomPercent
               ELSE IMax(100, minZoomPercent)
    /\ offsetX' = 0
    /\ offsetY' = RZero
    /\ Schedule(<<zoom', offsetX', offsetY'>> # <<zoom, offsetX, offsetY>>)
    /\ UNCHANGED <<chainVars, textVars, bookVars, image, imageNotice, depVars, mounted, artVars, exportVars>>


(***************************************************************************)
(* Artwork acquisition: handleImageUpload, the listing load of the         *)
(* ?listing= effect, prepareImageAsset's decode, assignPreparedImage.      *)
(*                                                                         *)
(* A file is [type, width, height, name], its MIME type <<major, minor>>.  *)
(* An acquisition in flight is [acq, kind, stage, url, file, cancelled].   *)
(***************************************************************************)
NoMimeType == <<"", "">>
NoFile == [type |-> NoMimeType, width |-> 0, height |-> 0, name |-> ""]
IsImageType(type) == type[1] = "image"

LowResNotice == "lower quality"
NotImageNotice == "Please upload a JPEG or PNG file."
UnreadableNotice == "We couldn't read that file."
LibraryNotice == "We couldn't load that artwork from the library."

resolutionWarning(width, height) ==
    IF width < MIN_IMAGE_WIDTH \/ height < MIN_IMAGE_HEIGHT THEN LowResNotice
    ELSE NoNotice

Revoke(rv, u) == [rv EXCEPT ![u] = @ + 1]

\* URL.createObjectURL + new Image(): the decode is in flight.
handleImageUpload(file) ==
    /\ CanHandle
    /\ IF ~IsImageType(file.type)
       THEN /\ imageNotice' = NotImageNotice
            /\ Schedule(imageNotice' # imageNotice)
            /\ UNCHANGED <<pending, started, revokes>>
       ELSE /\ Len(revokes) < MaxUrls
            /\ revokes' = Append(revokes, 0)
            /\ started' = started + 1
            /\ pending' = pending \cup
                   {[acq |-> started + 1, kind |-> "upload", stage |-> "decode",
                     url |-> Len(revokes) + 1, file |-> file, cancelled |-> FALSE]}
            /\ UNCHANGED <<imageNotice, phase>>
    /\ UNCHANGED <<chainVars, textVars, bookVars, image, viewVars, depVars, mounted, settled, exportVars>>

\* loadLibraryImage up to prepareImageAsset: fetch(listingParam) answered
\* with a blob that passes the type check; the decode starts.
listingFetched(a, blob) ==
    /\ Quiescent
    /\ a \in pending /\ a.kind = "listing" /\ a.stage = "fetch"
    /\ blob.type = NoMimeType \/ IsImageType(blob.type)
    /\ Len(revokes) < MaxUrls
    /\ revokes' = Append(revokes, 0)
    /\ pending' = (pending \ {a}) \cup
           {[a EXCEPT !.stage = "decode", !.url = Len(revokes) + 1, !.file = blob]}
    /\ UNCHANGED <<chainVars, textVars, bookVars, image, imageNotice, viewVars, phase, depVars, mounted,
                   started, settled, exportVars>>

\* loadLibraryImage's catch before any URL exists: the fetch fails, the
\* response is not ok, or the blob has a type that is not an image type.
listingFetchFailed(a) ==
    /\ Quiescent
    /\ a \in pending /\ a.kind = "listing" /\ a.stage = "fetch"
    /\ pending' = pending \ {a}
    /\ imageNotice' = IF mounted /\ ~a.cancelled THEN LibraryNotice ELSE imageNotice
    /\ Schedule(imageNotice' # imageNotice)
    /\ UNCHANGED <<chainVars, textVars, bookVars, image, viewVars, depVars, mounted, started, settled,
                   revokes, exportVars>>

\* The asset prepareImageAsset resolves with.
preparedAsset(a) ==
    [url |-> a.url, width |-> a.file.width, height |-> a.file.height,
     name |-> a.file.name,
     mimeType |-> IF a.file.type = NoMimeType THEN "*" ELSE a.file.type[2],
     acq |-> a.acq]

\* The URL.revokeObjectURL call of setImage's updater.
revokedByUpdater(rv, previous) ==
    IF previous # NoImage THEN Revoke(rv, previous.url) ELSE rv

\* image.onload, then assignPreparedImage (for a listing: unless cancelled).
\* setImage's updater runs before the render that shows the new asset is
\* committed (at the call or, when queued, at the start of that render).
\* On an unmounted component the update is dropped; whether the updater was
\* still evaluated for it is left open.
decodeLoaded(a) ==
    /\ Quiescent
    /\ a \in pending /\ a.stage = "decode"
    /\ pending' = pending \ {a}
    /\ IF a.kind = "listing" /\ a.cancelled
       THEN /\ revokes' = Revoke(revokes, a.url)
            /\ UNCHANGED <<image, imageNotice, settled, phase>>
       ELSE IF ~mounted
       THEN /\ revokes' \in {revokes, revokedByUpdater(revokes, image)}
            /\ UNCHANGED <<image, imageNotice, settled, phase>>
       ELSE /\ imageNotice' = resolutionWarning(a.file.width, a.file.height)
            /\ revokes' = revokedByUpdater(revokes, image)
            /\ image' = preparedAsset(a)
            /\ settled' = settled \cup {a.acq}
            /\ phase' = "render"
    /\ UNCHANGED <<chainVars, textVars, bookVars, viewVars, depVars, mounted, started, exportVars>>

\* A variant of decodeFailed that also drops the installed asset.
decodeFailedDroppingImage(a) ==
    /\ Quiescent
    /\ a \in pending /\ a.stage = "decode"
    /\ pending' = pending \ {a}
    /\ revokes' = Revoke(revokes, a.url)
    /\ image' = NoImage
    /\ imageNotice' = IF mounted THEN UnreadableNotice ELSE imageNotice
    /\ phase' = "render"
    /\ UNCHANGED <<chainVars, textVars, bookVars, viewVars, depVars, mounted, started, settled, exportVars>>

\* image.onerror: the URL is revoked and the notice set.
decodeFailed(a) ==
    /\ Quiescent
    /\ a \in pending /\ a.stage = "decode"
    /\ pending' = pending \ {a}
    /\ revokes' = Revoke(revokes, a.url)
    /\ imageNotice' =
           IF ~mounted THEN imageNotice
           ELSE IF a.kind = "upload" THEN UnreadableNotice
           ELSE IF ~a.cancelled THEN LibraryNotice
           ELSE imageNotice
    /\ Schedule(imageNotice' # imageNotice)
    /\ UNCHANGED <<chainVars, textVars, bookVars, image, viewVars, depVars, mounted, started, settled,
                   exportVars>>

(***************************************************************************)
(* The render cycle.                                                       *)
(***************************************************************************)
\* A variant that resets the stored zoom to the new minimum in every case.
resetZoomToMinimum(current, minZoom) == minZoom

reclampZoom(current, minZoom) ==
    IF current < minZoom THEN minZoom
    ELSE IF current > ZOOM_MAX THEN ZOOM_MAX
    ELSE current

reclampOffsetY(current, minOffset) ==
    IF RLt(current, minOffset) THEN minOffset
    ELSE IF RLt(FromInt(100), current) THEN FromInt(100)
    ELSE current

EffectsPending ==
    \/ image # depImage
    \/ minZoomPercent # depMinZoom
    \/ minVerticalOffsetPercent # depMinVOff

\* The component function runs and its output is committed.  Its first
\* statement, useState([createBook()]), evaluates createBook() on every
\* render and so advances bookIdCounter.
Render ==
    /\ mounted /\ phase = "render"
    /\ bookIdCounter < IdBound
    /\ bookIdCounter' = bookIdCounter + 1
    /\ renderedImage' = image
    /\ phase' = IF EffectsPending THEN "effects" ELSE "idle"
    /\ zoomAdjusts' = IF EffectsPending THEN zoomAdjusts ELSE 0
    /\ offsetYAdjusts' = IF EffectsPending THEN offsetYAdjusts ELSE 0
    /\ UNCHANGED <<textVars, books, image, imageNotice, viewVars, depMinZoom, depMinVOff,
                   depImage, mounted, artVars, exportVars>>

\* The passive effects of the commit, in source order: the cleanup of the
\* [image] effect, the zoom re-clamp, the offsetY re-clamp.  Each runs only
\* when its dependency differs from the previous commit's, and all read the
\* values of the render just committed.
FlushEffects ==
    /\ mounted /\ phase = "effects"
    /\ revokes' = IF image # depImage /\ depImage # NoImage
                  THEN Revoke(revokes, depImage.url) ELSE revokes
    /\ depImage' = image
    /\ \E minZoom \in {minZoomPercent} :
           /\ zoom' = IF minZoom # depMinZoom THEN reclampZoom(zoom, minZoom) ELSE zoom
           /\ depMinZoom' = minZoom
    /\ \E minOffset \in {minVerticalOffsetPercent} :
           /\ offsetY' = IF minOffset # depMinVOff
                         THEN reclampOffsetY(offsetY, minOffset) ELSE offsetY
           /\ depMinVOff' = minOffset
    /\ phase' = IF zoom' # zoom \/ offsetY' # offsetY THEN "render" ELSE "idle"
    /\ zoomAdjusts' = IF phase' = "idle" THEN 0
                      ELSE zoomAdjusts + (IF zoom' # zoom THEN 1 ELSE 0)
    /\ offsetYAdjusts' = IF phase' = "idle" THEN 0
                         ELSE offsetYAdjusts + (IF offsetY' # offsetY THEN 1 ELSE 0)
    /\ UNCHANGED <<textVars, bookVars, image, imageNotice, offsetX, renderedImage, mounted,
                   pending, started, settled, exportVars>>

\* The component unmounts: the [image] effect's cleanup revokes the current
\* URL, the listing effect's cleanup sets its cancelled flag.
Unmount ==
    /\ CanHandle
    /\ mounted' = FALSE
    /\ revokes' = IF depImage # NoImage THEN Revoke(revokes, depImage.url) ELSE revokes
    /\ pending' = {IF a.kind = "listing" THEN [a EXCEPT !.cancelled = TRUE] ELSE a :
                   a \in pending}
    /\ UNCHANGED <<chainVars, textVars, bookVars, image, imageNotice, viewVars, phase, depVars, started,
                   settled, exportVars>>


(***************************************************************************)
(* The proof pages.  pdfPages is the per-book page layout of the PDF       *)
(* export, in millimetres; the Section 4 page previews place the same      *)
(* artwork per book in preview pixels.                                     *)
(***************************************************************************)
\* bookCentersMm[index]: the running offset takes each spine and, after
\* every book but the last, the gap.
RECURSIVE runningOffsetMm(_)
runningOffsetMm(i) ==
    IF i = 1 THEN 0
    ELSE runningOffsetMm(i - 1) + books[i - 1].spineWidth + BOOK_GAP_MM

bookCentersMm(i) == RAdd(FromInt(runningOffsetMm(i)), R(books[i].spineWidth, 2))

artworkDisplayWidthMm == pxToMm(artworkDisplayWidth)
artworkDisplayHeightMm == pxToMm(artworkDisplayHeight)
imageLeftInPreviewMm ==
    RAdd(RSub(R(totalWidthMm, 2), RHalf(artworkDisplayWidthMm)), pxToMm(translateXPx))
imageTopWithinAreaMm ==
    RAdd(RSub(R(maxHeightMm, 2), RHalf(artworkDisplayHeightMm)), pxToMm(translateYPx))
bookAreaTopOnPageMm == RMax(RHalf(RSub(PAGE_HEIGHT_MM, FromInt(maxHeightMm))), RZero)
bookAreaHeightMm == RMin(FromInt(maxHeightMm), PAGE_HEIGHT_MM)

pdfPage(i) ==
    LET spineCenterMm == bookCentersMm(i)
        spineWidthMm == FromInt(IMax(books[i].spineWidth, 0))
        spineLeftMm == RSub(RHalf(PAGE_WIDTH_MM), RHalf(spineWidthMm))
    IN  [book |-> books[i],
         index |-> i,
         spineWidthMm |-> spineWidthMm,
         spineLeftMm |-> spineLeftMm,
         spineRightMm |-> RAdd(spineLeftMm, spineWidthMm),
         imageLeftMm |-> RAdd(RSub(RHalf(PAGE_WIDTH_MM), spineCenterMm), imageLeftInPreviewMm),
         imageTopMm |-> RAdd(bookAreaTopOnPageMm, imageTopWithinAreaMm),
         imageWidthMm |-> artworkDisplayWidthMm,
         imageHeightMm |-> artworkDisplayHeightMm,
         bookAreaTopMm |-> bookAreaTopOnPageMm,
         bookAreaHeightMm |-> bookAreaHeightMm]

pdfPages == [i \in 1..Len(books) |-> pdfPage(i)]

\* booksWithLayout[i].centerPx, .spineWidthPx, .jacketHeightPx
bookGapPx == mmToPx(FromInt(BOOK_GAP_MM))

RECURSIVE runningOffsetPx(_)
runningOffsetPx(i) ==
    IF i = 1 THEN RZero
    ELSE RAdd(RAdd(runningOffsetPx(i - 1), mmToPx(FromInt(books[i - 1].spineWidth))),
              bookGapPx)

spineWidthPx(i) == mmToPx(FromInt(books[i].spineWidth))
jacketHeightPx(i) == mmToPx(FromInt(books[i].height))
centerPx(i) == RAdd(runningOffsetPx(i), RHalf(spineWidthPx(i)))

\* The Section 4 page of book i: the artwork's translate() and the shift of
\* the spine strip.
\* A variant that shifts the strip by the spine's left edge.
centerShiftToLeftEdge(i) == RSub(RHalf(totalWidthPx), runningOffsetPx(i))

centerShiftPx(i) == RSub(RHalf(totalWidthPx), centerPx(i))
artworkShiftXPx(i) == RAdd(translateXPx, centerShiftPx(i))


(***************************************************************************)
(* Where the artwork and a spine sit.  In the live preview positions are   *)
(* pixels from the top left corner of the stack box (totalWidthPx by       *)
(* maxHeightPx); on a page they are taken from the page's centre (the      *)
(* Section 4 page, pixels) or its top left corner (the PDF page, mm).      *)
(***************************************************************************)
\* The preview artwork: left 50%, top 50%, translate(-50%, -50%), then
\* translate(translateXPx, translateYPx).
previewArtworkCenterX == RAdd(RHalf(totalWidthPx), translateXPx)
previewArtworkCenterY == RAdd(RHalf(maxHeightPx), translateYPx)
previewArtworkLeft == RSub(previewArtworkCenterX, RHalf(artworkDisplayWidth))
previewArtworkRight == RAdd(previewArtworkCenterX, RHalf(artworkDisplayWidth))

\* The preview spine of book i: a flex row from the left edge, padded by
\* topMarginPx, each spine box pushed down by its heightDifferencePx.
heightDifferencePx(i) == RSub(RSub(maxHeightPx, topMarginPx), jacketHeightPx(i))
previewSpineCenterX(i) == centerPx(i)
previewSpineCenterY(i) ==
    RAdd(RAdd(topMarginPx, heightDifferencePx(i)), RHalf(jacketHeightPx(i)))

\* The Section 4 page of book i, from the page's centre: the spine row is
\* totalWidthPx wide, centred and shifted by centerShiftPx; its spine boxes
\* all have the page layout's height and are centred vertically.
section4SpineCenterX(i) == RAdd(RSub(centerShiftPx(i), RHalf(totalWidthPx)), centerPx(i))
section4SpineCenterY(i) == RZero
\* isCurrentBook: the box of book j on the page of book i is laid out for
\* every j and visible for the page's own book only.
section4SpineVisible(i, j) == books[j].id = books[i].id
section4ArtworkCenterX(i) == artworkShiftXPx(i)
section4ArtworkCenterY(i) == translateYPx

\* A PDF page (an element of pdfPages), in mm from the page's top left
\* corner: the spine rectangle runs over the whole page height.
pdfSpineCenterXMm(page) == RHalf(RAdd(page.spineLeftMm, page.spineRightMm))
pdfSpineCenterYMm(page) == RHalf(PAGE_HEIGHT_MM)
pdfArtworkCenterXMm(page) == RAdd(page.imageLeftMm, RHalf(page.imageWidthMm))
pdfArtworkCenterYMm(page) == RAdd(page.imageTopMm, RHalf(page.imageHeightMm))

(***************************************************************************)
(* The PDF export: handleExportPdf and its asynchronous continuation.      *)
(* A job is [id, image, pages, stage]: the image and pdfPages its closure  *)
(* holds, and how far it has come ("fetch": before fetch(image.url)        *)
(* answers; "build": the artwork bytes are read, the document is built).   *)
(***************************************************************************)
ExportErrorMessage == "We couldn't create the PDF."

isLowResolutionArtwork == HasImage /\ imageNotice = LowResNotice
exportDisabled == ~HasImage \/ Len(pdfPages) = 0 \/ isExporting

\* A variant of the handler's guard that does not look at isExporting.
returnsEarlyWhateverIsExporting == ~HasImage \/ Len(pdfPages) = 0

\* The guard in the first line of handleExportPdf.
handleExportPdfReturnsEarly == ~HasImage \/ Len(pdfPages) = 0 \/ isExporting

\* The synchronous part of handleExportPdf, up to its first await.
\* confirmed is the answer to window.confirm, asked for low-resolution art.
handleExportPdf(confirmed) ==
    /\ CanHandle
    /\ IF handleExportPdfReturnsEarly
       THEN UNCHANGED <<phase, exportVars>>
       ELSE IF isLowResolutionArtwork /\ ~confirmed
       THEN UNCHANGED <<phase, exportVars>>
       ELSE /\ exportsStarted < MaxExports
            /\ exportError' = NoNotice
            /\ isExporting' = TRUE
            /\ exportsStarted' = exportsStarted + 1
            /\ exports' = exports \cup
                   {[id |-> exportsStarted + 1, image |-> image, pages |-> pdfPages,
                     stage |-> "fetch"]}
            /\ phase' = "render"
            /\ UNCHANGED downloads
    /\ UNCHANGED <<chainVars, textVars, bookVars, image, imageNotice, viewVars, depVars, mounted, artVars>>

\* fetch(image.url) answers and response.arrayBuffer() is read: the object
\* URL of the job's image must still be live.
exportFetched(j) ==
    /\ Quiescent
    /\ j \in exports /\ j.stage = "fetch"
    /\ revokes[j.image.url] = 0
    /\ exports' = (exports \ {j}) \cup {[j EXCEPT !.stage = "build"]}
    /\ UNCHANGED <<chainVars, textVars, bookVars, image, imageNotice, viewVars, phase, depVars, mounted,
                   artVars, isExporting, exportError, exportsStarted, downloads>>

\* A variant of exportFailed without the finally block: isExporting stays.
exportFailedWithoutFinally(j) ==
    /\ Quiescent
    /\ j \in exports
    /\ exports' = exports \ {j}
    /\ exportError' = IF mounted THEN ExportErrorMessage ELSE exportError
    /\ Schedule(exportError' # exportError)
    /\ UNCHANGED <<chainVars, textVars, bookVars, image, imageNotice, viewVars, depVars, mounted, artVars,
                   isExporting, exportsStarted, downloads>>

\* A step of the try block throws (the library import, the fetch of a
\* revoked URL, the embedding, the save): catch sets exportError, finally
\* clears isExporting.  After an unmount the setters change nothing.
exportFailed(j) ==
    /\ Quiescent
    /\ j \in exports
    /\ exports' = exports \ {j}
    /\ exportError' = IF mounted THEN ExportErrorMessage ELSE exportError
    /\ isExporting' = IF mounted THEN FALSE ELSE isExporting
    /\ Schedule(<<exportError', isExporting'>> # <<exportError, isExporting>>)
    /\ UNCHANGED <<chainVars, textVars, bookVars, image, imageNotice, viewVars, depVars, mounted, artVars,
                   exportsStarted, downloads>>

\* pdfDoc.save() resolves and the download is triggered; finally clears
\* isExporting.
exportCompleted(j) ==
    /\ Quiescent
    /\ j \in exports /\ j.stage = "build"
    /\ exports' = exports \ {j}
    /\ downloads' = downloads + 1
    /\ isExporting' = IF mounted THEN FALSE ELSE isExporting
    /\ Schedule(isExporting' # isExporting)
    /\ UNCHANGED <<chainVars, textVars, bookVars, image, imageNotice, viewVars, depVars, mounted, artVars,
                   exportError, exportsStarted>>

(***************************************************************************)
(* The texts: the shared large text and the title on each spine, fitted by *)
(* two layout effects that measure a hidden node at trial font sizes.      *)
(***************************************************************************)
\* String.prototype.trim.
Whitespace == {" ", "\n"}

RECURSIVE TrimStart(_)
TrimStart(cs) ==
    IF cs = <<>> THEN <<>>
    ELSE IF Head(cs) \in Whitespace THEN TrimStart(Tail(cs))
    ELSE cs

RECURSIVE TrimEnd(_)
TrimEnd(cs) ==
    IF cs = <<>> THEN <<>>
    ELSE IF cs[Len(cs)] \in Whitespace THEN TrimEnd(SubSeq(cs, 1, Len(cs) - 1))
    ELSE cs

Trim(cs) == TrimEnd(TrimStart(cs))

\* The lines of a text under white-space: pre-wrap, before any wrapping.
TextLines(cs) == 1 + Cardinality({i \in 1..Len(cs) : cs[i] = "\n"})

\* Math.round.
Round(x) == -RCeil(RNeg(RAdd(x, R(1, 2))))

largeTextVisibleWidthPx == RMax(totalWidthPx, ROne)
largeTextVisibleHeightPx == RMax(RSub(maxHeightPx, topMarginPx), ROne)
trimmedLargeText == Trim(largeText)

\* A variant of the dependency list without the height of the box.
largeTextDepsWithoutHeight == <<largeTextVisibleWidthPx, trimmedLargeText>>

largeTextDeps == <<largeTextVisibleHeightPx, largeTextVisibleWidthPx, trimmedLargeText>>

DefaultLargeTextLayout ==
    [fontSize |-> LARGE_TEXT_DEFAULT_FONT_SIZE,
     lineHeight |-> RMul(FromInt(LARGE_TEXT_DEFAULT_FONT_SIZE), LARGE_TEXT_LINE_HEIGHT_MULTIPLIER),
     lineCount |-> 0]

LargeTextWarning ==
    "Large text is too long to fit within three lines. Try shortening your message."

\* What the browser answers for a measurement node of the given width that
\* holds text at a font size.  The layout engine is the environment: from
\* measure.wrapFrom on the text wraps into measure.extra more lines, from
\* measure.wideFrom on a word sticks out of the node, and measure.rects says
\* whether Range.getClientRects answers with one rectangle per line or with
\* none.  A letter of a text stands for a word of any length.
Wrapped(size) == size >= measure.wrapFrom
Sticking(size) == size >= measure.wideFrom

layoutLines(text, size) == TextLines(text) + (IF Wrapped(size) THEN measure.extra ELSE 0)

scrollWidth(width, size) == Round(width) + (IF Sticking(size) THEN 10 ELSE 0)

scrollHeight(text, size, multiplier) ==
    Round(RMul(FromInt(layoutLines(text, size) * size), multiplier))

clientRects(text, size) == IF measure.rects THEN layoutLines(text, size) ELSE 0

\* rects.length || Math.max(1, Math.round(scrollHeight / Math.max(computedLineHeight, 1)))
estimatedLines(rects, height, computedLineHeight) ==
    IF rects # 0 THEN rects
    ELSE IMax(1, Round(RDiv(FromInt(height), RMax(computedLineHeight, ROne))))

\* fits(size) of the large text effect.
fitsLargeText(size) ==
    \E lineHeight \in {RMul(FromInt(size), LARGE_TEXT_LINE_HEIGHT_MULTIPLIER)},
       height \in {scrollHeight(trimmedLargeText, size, LARGE_TEXT_LINE_HEIGHT_MULTIPLIER)} :
        /\ ~RLt(RAdd(largeTextVisibleWidthPx, R(1, 2)),
                FromInt(scrollWidth(largeTextVisibleWidthPx, size)))
        /\ ~RLt(RAdd(RMin(largeTextVisibleHeightPx,
                          RMul(lineHeight, FromInt(LARGE_TEXT_MAX_LINES))), R(1, 2)),
                FromInt(height))
        /\ estimatedLines(clientRects(trimmedLargeText, size), height, lineHeight)
               <= LARGE_TEXT_MAX_LINES

\* The while loop of the large text effect, from (low, high, best, found).
RECURSIVE largeTextSearch(_, _, _, _)
largeTextSearch(low, high, best, found) ==
    IF low > high THEN [best |-> best, found |-> found]
    ELSE LET mid == (low + high) \div 2
         IN  IF fitsLargeText(mid)
             THEN largeTextSearch(mid + 1, high, mid, TRUE)
             ELSE largeTextSearch(low, mid - 1, best, found)

largeTextBest ==
    IF fitsLargeText(LARGE_TEXT_DEFAULT_FONT_SIZE)
    THEN [best |-> LARGE_TEXT_DEFAULT_FONT_SIZE, found |-> TRUE]
    ELSE largeTextSearch(LARGE_TEXT_MIN_FONT_SIZE,
                         IMax(LARGE_TEXT_MIN_FONT_SIZE, LARGE_TEXT_DEFAULT_FONT_SIZE - 1),
                         LARGE_TEXT_MIN_FONT_SIZE, FALSE)

\* The layout and the overflow flag the large text effect arrives at for a
\* text that is not empty.
largeTextFitted(search) ==
    \* finalSize, its line height, and the node measured once more at it
    LET finalSize == IF search.found THEN search.best ELSE LARGE_TEXT_MIN_FONT_SIZE
        computedLineHeight == RMul(FromInt(finalSize), LARGE_TEXT_LINE_HEIGHT_MULTIPLIER)
        finalHeight == scrollHeight(trimmedLargeText, finalSize,
                                    LARGE_TEXT_LINE_HEIGHT_MULTIPLIER)
        lines == estimatedLines(clientRects(trimmedLargeText, finalSize), finalHeight,
                                computedLineHeight)
    IN  [layout |-> [fontSize |-> finalSize, lineHeight |-> computedLineHeight,
                     lineCount |-> lines],
         overflowed |->
             \/ ~search.found
             \/ RLt(RAdd(RMin(largeTextVisibleHeightPx,
                              RMul(computedLineHeight, FromInt(LARGE_TEXT_MAX_LINES))),
                         R(1, 2)),
                    FromInt(finalHeight))
             \/ lines > LARGE_TEXT_MAX_LINES]

\* The textarea's onChange: setLargeText(event.target.value).
setLargeText(value) ==
    /\ CanHandle
    /\ largeText' = value
    /\ Schedule(largeText' # largeText)
    /\ UNCHANGED <<chainVars, bookVars, image, imageNotice, viewVars, depVars, mounted, artVars,
                   exportVars, measure, largeTextLayout, largeTextWarning,
                   smallTextLayouts, depLargeText, depBooks>>

\* The useLayoutEffect of the large text, run by the commit when one of
\* [largeTextVisibleHeightPx, largeTextVisibleWidthPx, trimmedLargeText] has
\* changed.  The box is at least 1px by 1px, so the empty text is the one
\* case of the first branch.
largeTextLayoutEffect ==
    /\ mounted /\ phase = "idle"
    /\ depLargeText # largeTextDeps
    /\ depLargeText' = largeTextDeps
    /\ IF trimmedLargeText = <<>>
       THEN /\ largeTextLayout' = DefaultLargeTextLayout
            /\ largeTextWarning' = NoNotice
            /\ Schedule(largeTextLayout' # largeTextLayout
                        \/ largeTextWarning' # largeTextWarning)
       ELSE \E fitted \in {largeTextFitted(largeTextBest)} :
                /\ largeTextLayout' = fitted.layout
                /\ largeTextWarning' = IF fitted.overflowed THEN LargeTextWarning
                                       ELSE NoNotice
                /\ Schedule(TRUE)
    /\ UNCHANGED <<chainVars, bookVars, image, imageNotice, viewVars, depVars, mounted, artVars,
                   exportVars, largeText, measure, smallTextLayouts, depBooks>>

\* The layout of a spine without title, or without measurement node.
defaultLayout(trimmedTitle) ==
    [fontSize |-> SMALL_TEXT_DEFAULT_FONT_SIZE,
     lineHeight |-> RMul(FromInt(SMALL_TEXT_DEFAULT_FONT_SIZE), SMALL_TEXT_LINE_HEIGHT_MULTIPLIER),
     lineCount |-> IF Len(trimmedTitle) > 0 THEN 1 ELSE 0]

smallTextTargetWidth(book) ==
    RMax(RSub(mmToPx(FromInt(book.spineWidth)), FromInt(SMALL_TEXT_HORIZONTAL_PADDING_PX)),
         ROne)

\* fits(size) of the small text effect, for one book.
fitsSmallText(book, size) ==
    \E lineHeight \in {RMul(FromInt(size), SMALL_TEXT_LINE_HEIGHT_MULTIPLIER)},
       height \in {scrollHeight(Trim(book.title), size, SMALL_TEXT_LINE_HEIGHT_MULTIPLIER)},
       targetWidth \in {smallTextTargetWidth(book)} :
        /\ ~RLt(RAdd(targetWidth, R(1, 2)), FromInt(scrollWidth(targetWidth, size)))
        /\ ~RLt(RAdd(RMul(lineHeight, FromInt(SMALL_TEXT_MAX_LINES)), R(1, 2)),
                FromInt(height))
        /\ estimatedLines(clientRects(Trim(book.title), size), height, lineHeight)
               <= SMALL_TEXT_MAX_LINES

RECURSIVE smallTextSearch(_, _, _, _, _)
smallTextSearch(book, low, high, best, found) ==
    IF low > high THEN [best |-> best, found |-> found]
    ELSE LET mid == (low + high) \div 2
         IN  IF fitsSmallText(book, mid)
             THEN smallTextSearch(book, mid + 1, high, mid, TRUE)
             ELSE smallTextSearch(book, low, mid - 1, best, found)

smallTextBest(book) ==
    IF fitsSmallText(book, SMALL_TEXT_DEFAULT_FONT_SIZE)
    THEN [best |-> SMALL_TEXT_DEFAULT_FONT_SIZE, found |-> TRUE]
    ELSE smallTextSearch(book, SMALL_TEXT_MIN_FONT_SIZE,
                         IMax(SMALL_TEXT_MIN_FONT_SIZE, SMALL_TEXT_DEFAULT_FONT_SIZE - 1),
                         SMALL_TEXT_MIN_FONT_SIZE, FALSE)

\* nextLayouts[book.id] of the small text effect; there is no overflow flag.
smallTextFitted(book, search) ==
    LET finalSize == IF search.found THEN search.best ELSE SMALL_TEXT_MIN_FONT_SIZE
        computedLineHeight == RMul(FromInt(finalSize), SMALL_TEXT_LINE_HEIGHT_MULTIPLIER)
        finalHeight == scrollHeight(Trim(book.title), finalSize,
                                    SMALL_TEXT_LINE_HEIGHT_MULTIPLIER)
    IN  [fontSize |-> finalSize, lineHeight |-> computedLineHeight,
         lineCount |-> estimatedLines(clientRects(Trim(book.title), finalSize),
                                      finalHeight, computedLineHeight)]

nextLayout(book) ==
    IF Len(Trim(book.title)) = 0 THEN defaultLayout(Trim(book.title))
    ELSE smallTextFitted(book, smallTextBest(book))

nextLayouts ==
    [id \in {books[i].id : i \in 1..Len(books)} |->
         nextLayout(books[CHOOSE i \in 1..Len(books) : books[i].id = id])]

\* The useLayoutEffect of the small texts, run by the commit when [books]
\* has changed; setSmallTextLayouts keeps the current map when no entry
\* differs.
smallTextLayoutEffect ==
    /\ mounted /\ phase = "idle"
    /\ depBooks # books
    /\ depBooks' = books
    /\ smallTextLayouts' = nextLayouts
    /\ Schedule(smallTextLayouts' # smallTextLayouts)
    /\ UNCHANGED <<chainVars, bookVars, image, imageNotice, viewVars, depVars, mounted, artVars,
                   exportVars, largeText, measure, largeTextLayout, largeTextWarning,
                   depLargeText>>

\* A layout effect of the last commit has yet to run.
LayoutEffectsDue == depLargeText # largeTextDeps \/ depBooks # books

(***************************************************************************)
(* The initial state: the component is mounted with one default book, no   *)
(* artwork, and its mount effects have run.                                *)
(***************************************************************************)
ListingAcquisition ==
    [acq |-> 1, kind |-> "listing", stage |-> "fetch", url |-> 0, file |-> NoFile,
     cancelled |-> FALSE]

\* A layout engine under which every text fits on the lines it is typed on.
PlainMeasure == [wrapFrom |-> 0, extra |-> 0, wideFrom |-> 100, rects |-> TRUE]

InitState(bs, counter, listings, measures) ==
    /\ books = bs
    /\ bookIdCounter = counter
    /\ image = NoImage
    /\ imageNotice = NoNotice
    /\ zoom = 100
    /\ offsetX = 0
    /\ offsetY = RZero
    /\ phase = "idle"
    /\ depMinZoom = ZOOM_FLOOR
    /\ depMinVOff = FromInt(-100)
    /\ depImage = NoImage
    /\ renderedImage = NoImage
    /\ mounted = TRUE
    /\ pending = listings
    /\ started = Cardinality(listings)
    /\ settled = {}
    /\ revokes = <<>>
    /\ isExporting = FALSE
    /\ exportError = NoNotice
    /\ exports = {}
    /\ exportsStarted = 0
    /\ downloads = 0
    /\ largeText = <<>>
    /\ largeTextLayout = DefaultLargeTextLayout
    /\ largeTextWarning = NoNotice
    /\ smallTextLayouts = [id \in {bs[i].id : i \in 1..Len(bs)} |-> defaultLayout(<<>>)]
    /\ depLargeText = largeTextDeps
    /\ depBooks = bs
    /\ measure \in measures
    /\ zoomAdjusts = 0
    /\ offsetYAdjusts = 0

InitWith(listings) == InitState(<<createBook(0)>>, 1, listings, {PlainMeasure})

\* The state MAX_BOOKS - 2 addBook calls after the start, each rendered: the
\* k-th book (k > 1) was made by createBook at bookIdCounter = 2k - 3.
NearCapBooks ==
    [k \in 1..(MAX_BOOKS - 1) |-> createBook(IF k = 1 THEN 0 ELSE 2 * k - 3)]

InitNearCap == InitState(NearCapBooks, NearCapCounter, {}, {PlainMeasure})

(***************************************************************************)
(* Spec: the book list, the artwork and the placement of the artwork over  *)
(* the stack (zoom and horizontal offset).                                 *)
(***************************************************************************)
Png == <<"image", "png">>
PrintFile == [type |-> Png, width |-> 3300, height |-> 5100, name |-> "print.png"]
MidFile == [type |-> Png, width |-> 1000, height |-> 5100, name |-> "mid.png"]
WideFile == [type |-> Png, width |-> 4000, height |-> 3000, name |-> "wide.png"]
TextFile == [type |-> <<"text", "plain">>, width |-> 0, height |-> 0, name |-> "notes.txt"]

ViewFiles == {WideFile, MidFile}
ViewEdits ==
    {<<"spineWidth", <<>>>>, <<"height", <<"1", "0", "0">>>>, <<"height", <<"3", "0", "0">>>>}
ViewZooms == {ZOOM_MAX}
ViewOffsetsX == {-100, 100}

BookIds == {books[i].id : i \in 1..Len(books)}

Init == InitWith({})

Next ==
    \/ \E id \in BookIds, edit \in ViewEdits : updateBook(id, edit[1], edit[2])
    \/ addBook
    \/ \E id \in BookIds : removeBook(id)
    \/ \E value \in ViewZooms : setZoomSlider(value)
    \/ \E value \in ViewOffsetsX : setOffsetXSlider(value)
    \/ \E file \in ViewFiles : handleImageUpload(file)
    \/ \E a \in pending : decodeLoaded(a)
    \/ Render
    \/ FlushEffects

Spec == Init /\ [][Next]_vars

(***************************************************************************)
(* SpecBooks: the book list and its proof pages (addBook, removeBook,      *)
(* updateBook), with one artwork.                                          *)
(***************************************************************************)
BookFiles == {PrintFile}

NextBooks ==
    \/ \E id \in BookIds, edit \in ViewEdits : updateBook(id, edit[1], edit[2])
    \/ addBook
    \/ \E id \in BookIds : removeBook(id)
    \/ \E file \in BookFiles : handleImageUpload(file)
    \/ \E a \in pending : decodeLoaded(a)
    \/ Render
    \/ FlushEffects

SpecBooks == Init /\ [][NextBooks]_vars

(***************************************************************************)
(* SpecBookCount: the length of the book list at both ends, from the       *)
(* initial one-book list and from one book short of MAX_BOOKS.             *)
(***************************************************************************)
EndIds == {books[1].id, books[Len(books)].id}

\* What a number input can hand to updateBook: the emptied field, a negative
\* number, text that is no number, and numbers below and above the physical
\* maxima.
BookEdits ==
    ViewEdits \cup {<<"coverWidth", <<"-", "5">>>>, <<"height", <<"1", "e">>>>,
                    <<"coverWidth", <<"2", "0", "0">>>>}

NextBookCount ==
    \/ \E id \in EndIds, edit \in BookEdits : updateBook(id, edit[1], edit[2])
    \/ addBook
    \/ \E id \in EndIds : removeBook(id)
    \/ Render

SpecBookCount == (Init \/ InitNearCap) /\ [][NextBookCount]_vars

(***************************************************************************)
(* SpecText: the large text and the titles are edited, and the layout      *)
(* effects fit them under each of the layout engines of Measures.  An      *)
(* event handler runs only after the layout effects of the last commit.    *)
(***************************************************************************)
LargeTexts ==
    {<<>>, <<"a">>, <<" ", "a", "\n">>, <<"a", "\n", "b", "\n", "c">>,
     <<"a", "\n", "b", "\n", "c", "\n", "d">>}
Titles == {<<>>, <<"a">>, <<"a", " ", "b">>}

Measures ==
    [wrapFrom : {8, 10, 16, 17, 30, 44, 59, 73}, extra : {1, 2, 3},
     wideFrom : {9, 10, 58, 73}, rects : BOOLEAN]

InitText == InitState(<<createBook(0)>>, 1, {}, Measures)

NextText ==
    \/ ~LayoutEffectsDue /\ \E value \in LargeTexts : setLargeText(value)
    \/ ~LayoutEffectsDue /\ \E id \in BookIds, title \in Titles : updateBook(id, "title", title)
    \/ Render
    \/ largeTextLayoutEffect
    \/ smallTextLayoutEffect

SpecText == InitText /\ [][NextText]_vars

(***************************************************************************)
(* SpecLayout: the two text layouts under edits of the texts and of the    *)
(* boxes they are fitted into (a book's spine width and height, the list   *)
(* of books), over fewer layout engines than SpecText.                     *)
(***************************************************************************)
LayoutTexts == {<<>>, <<"a">>, <<"a", "\n", "b", "\n", "c">>}
LayoutTitles == {<<>>, <<"a">>}
BoxEdits == {<<"height", <<"2", "0">>>>, <<"spineWidth", <<>>>>, <<"spineWidth", <<"5">>>>}

LayoutMeasures ==
    [wrapFrom : {17, 59, 73}, extra : {1, 3}, wideFrom : {58, 100}, rects : BOOLEAN]

InitLayout == InitState(<<createBook(0)>>, 1, {}, LayoutMeasures)

NextLayout ==
    \/ ~LayoutEffectsDue /\ \E value \in LayoutTexts : setLargeText(value)
    \/ ~LayoutEffectsDue /\ \E id \in BookIds, title \in LayoutTitles :
                                 updateBook(id, "title", title)
    \/ ~LayoutEffectsDue /\ \E id \in BookIds, edit \in BoxEdits :
                                 updateBook(id, edit[1], edit[2])
    \/ ~LayoutEffectsDue /\ addBook
    \/ ~LayoutEffectsDue /\ \E id \in BookIds : removeBook(id)
    \/ Render
    \/ largeTextLayoutEffect
    \/ smallTextLayoutEffect

SpecLayout == InitLayout /\ [][NextLayout]_vars

(***************************************************************************)
(* SpecClamp: the viewport under changes of its bounds (the sliders,       *)
(* resetViewport and the re-clamp effects).                                *)
(***************************************************************************)
ClampEdits == {<<"height", <<"1", "0", "0">>>>}
ClampOffsetsX == {100}
ClampOffsetsY == {FromInt(100)}

NextClamp ==
    \/ \E id \in BookIds, edit \in ClampEdits : updateBook(id, edit[1], edit[2])
    \/ addBook
    \/ \E value \in ViewZooms : setZoomSlider(value)
    \/ \E value \in ClampOffsetsX : setOffsetXSlider(value)
    \/ \E value \in ClampOffsetsY : setOffsetYSlider(value)
    \/ resetViewport
    \/ \E file \in ViewFiles : handleImageUpload(file)
    \/ \E a \in pending : decodeLoaded(a)
    \/ Render
    \/ FlushEffects

SpecClamp == Init /\ [][NextClamp]_vars

(***************************************************************************)
(* SpecPan: the vertical placement of the artwork over stacks of a usual   *)
(* height and of 1 and 2 mm, under the zoom and the vertical slider.       *)
(***************************************************************************)
PanEdits ==
    {<<"height", <<"1">>>>, <<"height", <<"2">>>>, <<"height", <<"1", "0", "0">>>>}
PanOffsetsY == {FromInt(-100), FromInt(100)}

NextPan ==
    \/ \E id \in BookIds, edit \in PanEdits : updateBook(id, edit[1], edit[2])
    \/ \E value \in ViewZooms : setZoomSlider(value)
    \/ \E value \in PanOffsetsY : setOffsetYSlider(value)
    \/ \E file \in ViewFiles : handleImageUpload(file)
    \/ \E a \in pending : decodeLoaded(a)
    \/ Render
    \/ FlushEffects

SpecPan == Init /\ [][NextPan]_vars

(***************************************************************************)
(* SpecArt: the artwork acquisitions (uploads and the listing load), their *)
(* object URLs, and the unmount.                                           *)
(***************************************************************************)
OtherFile == [type |-> Png, width |-> 3300, height |-> 5100, name |-> "other.png"]
ListingBlob == [type |-> NoMimeType, width |-> 3300, height |-> 5100, name |-> "library-image"]

ArtFiles == {PrintFile, OtherFile, TextFile}

InitArt == InitWith({}) \/ InitWith({ListingAcquisition})

NextArt ==
    \/ \E file \in ArtFiles : handleImageUpload(file)
    \/ \E a \in pending : listingFetched(a, ListingBlob)
    \/ \E a \in pending : listingFetchFailed(a)
    \/ \E a \in pending : decodeLoaded(a)
    \/ \E a \in pending : decodeFailed(a)
    \/ Render
    \/ FlushEffects
    \/ Unmount

SpecArt == InitArt /\ [][NextArt]_vars

(***************************************************************************)
(* SpecExport: the PDF export next to uploads and book edits.              *)
(***************************************************************************)
ExportFiles == {PrintFile, WideFile, MidFile}

NextExport ==
    \/ \E file \in ExportFiles : handleImageUpload(file)
    \/ \E a \in pending : decodeLoaded(a)
    \/ \E confirmed \in BOOLEAN : handleExportPdf(confirmed)
    \/ \E j \in exports : exportFetched(j)
    \/ \E j \in exports : exportFailed(j)
    \/ \E j \in exports : exportCompleted(j)
    \/ addBook
    \/ Render
    \/ FlushEffects

SpecExport == Init /\ [][NextExport]_vars

(***************************************************************************)
(* SpecConfirm: the export of artwork below the print size, next to        *)
(* uploads that are rejected for their type or fail to decode.             *)
(***************************************************************************)
ConfirmFiles == {MidFile, TextFile}

NextConfirm ==
    \/ \E file \in ConfirmFiles : handleImageUpload(file)
    \/ \E a \in pending : decodeLoaded(a)
    \/ \E a \in pending : decodeFailed(a)
    \/ \E confirmed \in BOOLEAN : handleExportPdf(confirmed)
    \/ \E j \in exports : exportFetched(j)
    \/ \E j \in exports : exportFailed(j)
    \/ \E j \in exports : exportCompleted(j)
    \/ Render
    \/ FlushEffects

SpecConfirm == Init /\ [][NextConfirm]_vars

\* SpecExportLive: the export under the scheduling the runtime gives it: a
\* scheduled render is rendered, the effects of a commit are run, and every
\* promise the export awaits is settled (resolved or rejected).
ExportSettles ==
    \E j \in exports : exportFetched(j) \/ exportFailed(j) \/ exportCompleted(j)

SpecExportLive ==
    /\ Init /\ [][NextExport]_vars
    /\ WF_vars(Render) /\ WF_vars(FlushEffects) /\ WF_vars(ExportSettles)

(***************************************************************************)
(* Properties.                                                             *)
(***************************************************************************)
ZoomInRange == minZoomPercent <= zoom /\ zoom <= ZOOM_MAX

\* The artwork reaches wrapMarginPx beyond both edges of the stack box.
CoversWrapMargins ==
    /\ RLe(previewArtworkLeft, RNeg(wrapMarginPx))
    /\ RLe(RAdd(totalWidthPx, wrapMarginPx), previewArtworkRight)

\* The unclamped minimum zoom is within the zoom range, and the stack box
\* is as wide as the stack (the one-pixel floor of totalWidthPx is idle).
MinZoomAttainable == minPercent <= ZOOM_MAX
StackBoxIsStack == totalWidthPx = mmToPx(FromInt(totalWidthMm))

\* C1, as stated: with artwork loaded, for every book list, every artwork
\* size, every zoom in [minZoomPercent, 200] and every offsetX, the artwork
\* extends at least wrapMarginPx beyond the stack's left and right edges.
C1_CoverageForEveryArtwork ==
    (HasImage /\ Len(books) >= 1 /\ ZoomInRange) => CoversWrapMargins

\* C1, amended: with artwork loaded, a zoom in [minZoomPercent, 200] and
\* any offsetX, the artwork extends at least wrapMarginPx beyond both stack
\* edges provided the zoom the stack needs is at most 200 (minZoomPercent
\* is not cut down by its upper clamp) and the stack is at least 1px wide.
C1_CoverageWhenAttainable ==
    (HasImage /\ Len(books) >= 1 /\ ZoomInRange /\ MinZoomAttainable /\ StackBoxIsStack)
        => CoversWrapMargins

\* Width decides the minimum zoom, the zoom sits on it, and offsetX = -100
\* pulls the artwork's right edge onto the wrap margin.
C1_Witness ==
    /\ HasImage /\ Quiescent /\ MinZoomAttainable /\ StackBoxIsStack
    /\ zoom = minZoomPercent /\ minZoomPercent > 101
    /\ offsetX = -100
    /\ CoversWrapMargins

\* The artwork centre's displacement from book i's spine centre, in pixels.
previewDisplacementX(i) == RSub(previewArtworkCenterX, previewSpineCenterX(i))
previewDisplacementY(i) == RSub(previewArtworkCenterY, previewSpineCenterY(i))
section4DisplacementX(i) == RSub(section4ArtworkCenterX(i), section4SpineCenterX(i))
section4DisplacementY(i) == RSub(section4ArtworkCenterY(i), section4SpineCenterY(i))
pdfDisplacementX(page) == mmToPx(RSub(pdfArtworkCenterXMm(page), pdfSpineCenterXMm(page)))
pdfDisplacementY(page) == mmToPx(RSub(pdfArtworkCenterYMm(page), pdfSpineCenterYMm(page)))

SameArtworkSize(page) ==
    /\ mmToPx(page.imageWidthMm) = artworkDisplayWidth
    /\ mmToPx(page.imageHeightMm) = artworkDisplayHeight

SameHorizontalPlacement(i, page) ==
    \A preview \in {previewDisplacementX(i)} :
        /\ section4DisplacementX(i) = preview
        /\ pdfDisplacementX(page) = preview

SameVerticalPlacement(i, page) ==
    \A preview \in {previewDisplacementY(i)} :
        /\ section4DisplacementY(i) = preview
        /\ pdfDisplacementY(page) = preview

IsTallest(i) == books[i].height = maxHeightMm
StackFitsPage == RLe(FromInt(maxHeightMm), PAGE_HEIGHT_MM)

\* C2, as stated: for every book i the horizontal and the vertical
\* displacement of the artwork's centre from book i's spine centre, and the
\* artwork's width and height, are the same in the preview and on the page.
C2_SamePlacementForEveryBook ==
    HasImage => \A i \in 1..Len(books) : \A page \in {pdfPage(i)} :
        /\ SameArtworkSize(page)
        /\ SameHorizontalPlacement(i, page)
        /\ SameVerticalPlacement(i, page)

\* What the preview and the pages of book i do agree on: the artwork's size
\* and, for a stack at least 1px wide, its horizontal displacement from the
\* spine centre; the vertical displacement for the books as tall as the
\* tallest one, on the PDF page as long as the stack is no taller than the
\* page.
PlacementAgreement ==
    HasImage => \A i \in 1..Len(books) : \A page \in {pdfPage(i)} :
        /\ SameArtworkSize(page)
        /\ \A preview \in {previewDisplacementX(i)} :
               /\ section4DisplacementX(i) = preview
               /\ StackBoxIsStack => pdfDisplacementX(page) = preview
        /\ IsTallest(i) => \A preview \in {previewDisplacementY(i)} :
               /\ section4DisplacementY(i) = preview
               /\ StackFitsPage => pdfDisplacementY(page) = preview

PageBooks == [k \in 1..Len(pdfPages) |-> pdfPages[k].book]
WithoutIndex(s, k) == [j \in 1..Len(s) - 1 |-> IF j < k THEN s[j] ELSE s[j + 1]]

OffsetYInRange ==
    RLe(minVerticalOffsetPercent, offsetY) /\ RLe(offsetY, FromInt(100))

\* C4, as stated: in every committed render (phase "effects": committed, the
\* re-clamp effects still to run; phase "idle": committed and settled) the
\* zoom used for the artwork display size lies in [minZoomPercent, 200].
C4_ZoomInRangeInEveryRender ==
    (mounted /\ phase # "render") => ZoomInRange

\* C5, as stated: in every quiescent state the stored offsetY lies in
\* [minVerticalOffsetPercent, 100].
C5_OffsetYInRangeWhenQuiescent ==
    (mounted /\ Quiescent) => OffsetYInRange

\* C6: the recomputation after a change (a render and its re-clamp effects)
\* leaves a stored zoom that lies in the new [minZoomPercent, 200] and a
\* stored offsetY that lies in the new [minVerticalOffsetPercent, 100] as
\* they are, and never changes the stored offsetX.
C6_ReclampKeepsValuesInRange ==
    [][/\ Render => UNCHANGED viewVars
       /\ FlushEffects =>
              /\ ZoomInRange => zoom' = zoom
              /\ OffsetYInRange => offsetY' = offsetY
              /\ offsetX' = offsetX]_vars

\* The artwork arrived after the user chose zoom 200 and offsetX 100: both
\* effects ran with new bounds and the stored values were in range.
C6_Witness ==
    /\ Quiescent /\ HasImage
    /\ depMinZoom = minZoomPercent /\ minZoomPercent > ZOOM_FLOOR
    /\ depMinVOff = minVerticalOffsetPercent
    /\ RLt(FromInt(-100), minVerticalOffsetPercent)
    /\ zoom = ZOOM_MAX /\ offsetX = 100 /\ offsetY = RZero

\* C7, as stated: the installed asset is that of the most recently started
\* acquisition among those whose decode has completed, and a decode that
\* completes after the unmount changes no state of the component.
C7_NewestAcquisitionWins ==
    /\ [](HasImage => \A n \in settled : n <= image.acq)
    /\ [][\A a \in pending :
            (~mounted /\ decodeLoaded(a)) =>
                UNCHANGED <<image, imageNotice, viewVars, phase, settled>>]_vars

\* C8, as stated: no object URL is revoked twice, and once the component is
\* unmounted and no acquisition is in flight every URL has been revoked.
C8_EveryUrlRevokedExactlyOnce ==
    /\ \A u \in 1..Len(revokes) : revokes[u] <= 1
    /\ (~mounted /\ pending = {}) => \A u \in 1..Len(revokes) : revokes[u] = 1

\* C9, as stated: the URL the committed render shows has not been revoked.
C9_RenderedUrlIsLive ==
    (mounted /\ renderedImage # NoImage) => revokes[renderedImage.url] = 0

\* C10: at most one export is in flight, an export in flight holds
\* isExporting, and handleExportPdf called while isExporting starts nothing.
C10_OneExportInFlight ==
    /\ [](Cardinality(exports) <= 1 /\ (exports # {} => isExporting))
    /\ [][\A confirmed \in BOOLEAN :
            (isExporting /\ handleExportPdf(confirmed)) => UNCHANGED exportVars]_vars

\* An export is in flight while the handler can be called again with
\* artwork that needs no confirmation.
C10_Witness ==
    /\ CanHandle /\ HasImage /\ ~isLowResolutionArtwork /\ Len(pdfPages) > 0
    /\ isExporting /\ Cardinality(exports) = 1

\* The export job with the given number, as it is in a state.
JobsWithId(jobs, id) == {j \in jobs : j.id = id}

\* C11, as stated: an export in flight keeps the artwork and the pages it
\* was invoked with, and whatever happens meanwhile it can still read that
\* artwork: the URL a job has yet to fetch has not been revoked.
C11_ExportWorksOnItsSnapshot ==
    /\ [](\A j \in exports : j.stage = "fetch" => revokes[j.image.url] = 0)
    /\ [][\A j \in exports : \A k \in JobsWithId(exports', j.id) :
            k.image = j.image /\ k.pages = j.pages]_vars

\* The model renders no further: a render is scheduled and bookIdCounter has
\* reached its bound.
RenderBoundReached == phase = "render" /\ bookIdCounter >= IdBound

\* C12: an export in flight eventually finishes with isExporting false
\* (up to the bound on renders); a failing step sets exportError, triggers
\* no download and leaves the handler ready to start an export again; and
\* starting an export clears exportError.
C12_ExportFinishesAndIsRetryable ==
    /\ (exports # {}) ~> ((exports = {} /\ ~isExporting) \/ RenderBoundReached)
    /\ [][\A j \in exports :
            exportFailed(j) =>
                /\ exportError' = ExportErrorMessage
                /\ downloads' = downloads
                /\ ~isExporting' /\ ~handleExportPdfReturnsEarly']_vars
    /\ [][\A confirmed \in BOOLEAN :
            (handleExportPdf(confirmed) /\ exportsStarted' # exportsStarted) =>
                exportError' = NoNotice]_vars

\* A first export failed (nothing was downloaded) and a second one has been
\* started, which cleared exportError.
C12_Witness ==
    /\ exportsStarted = 2 /\ downloads = 0
    /\ isExporting /\ Cardinality(exports) = 1 /\ exportError = NoNotice

\* C13: while the component is mounted, an upload rejected as not an
\* image, a decode that fails and a listing fetch that fails each leave the
\* installed asset as it is (present or not) and set an advisory notice.
C13_FailedAcquisitionKeepsAsset ==
    [][/\ \A file \in ArtFiles :
             (handleImageUpload(file) /\ ~IsImageType(file.type)) =>
                 image' = image /\ imageNotice' = NotImageNotice
       /\ \A a \in pending :
             (mounted /\ decodeFailed(a)) =>
                 /\ image' = image
                 /\ imageNotice' = IF a.kind = "upload" THEN UnreadableNotice
                                   ELSE LibraryNotice
       /\ \A a \in pending :
             (mounted /\ listingFetchFailed(a)) =>
                 image' = image /\ imageNotice' = LibraryNotice]_vars

\* An asset is installed, its URL live, and a later upload failed to decode.
C13_Witness ==
    /\ mounted /\ HasImage /\ revokes[image.url] = 0
    /\ imageNotice = UnreadableNotice

\* C14: the number of books is at least 1 and at most MAX_BOOKS.
C14_BookCountInRange == 1 <= Len(books) /\ Len(books) <= MAX_BOOKS

\* The list has been filled by addBook and its render has committed.
C14_Witness == Len(books) = MAX_BOOKS /\ Quiescent

\* C15: addBook on a list of MAX_BOOKS books, and removeBook on a list of one
\* book, leave the list as it is (same books, same fields, same order) and
\* leave bookIdCounter as it is.
C15_RejectedCallsChangeNothing ==
    [][/\ (Len(books) >= MAX_BOOKS /\ addBook) =>
             books' = books /\ bookIdCounter' = bookIdCounter
       /\ \A id \in 1..IdBound : (Len(books) = 1 /\ removeBook(id)) =>
             books' = books /\ bookIdCounter' = bookIdCounter]_vars

\* The list is down to its last book, left by a removeBook, and the
\* handlers can be called.
C15_Witness == Len(books) = 1 /\ books[1].id # 1 /\ CanHandle

\* C16, as stated: no book is taller than 265 mm and no book has
\* spineWidth + 2 x coverWidth above 400 mm, because updateBook turns down
\* the value that would take it there.
C16_NoBookAboveTheMaxima ==
    \A i \in 1..Len(books) :
        /\ books[i].height <= 265
        /\ books[i].spineWidth + 2 * books[i].coverWidth <= 400

\* C17, as stated: spineWidth, coverWidth and height of every book are above 0
\* whatever strings updateBook was given.
C17_BookFieldsArePositive ==
    \A i \in 1..Len(books) : \A field \in NumericFields : books[i][field] > 0

\* The spine titles carry no overflow report: the small text effect stores
\* fontSize, lineHeight and lineCount, and sets no warning.
smallTextOverflowReported(id) == FALSE

\* C18, as stated: the font size of the large text and of every title lies
\* between the minimum and the default size of its field, and a text for
\* which no overflow is reported is laid out on at most three lines.
C18_FontSizeInRangeAndLinesCapped ==
    /\ LARGE_TEXT_MIN_FONT_SIZE <= largeTextLayout.fontSize
    /\ largeTextLayout.fontSize <= LARGE_TEXT_DEFAULT_FONT_SIZE
    /\ largeTextWarning = NoNotice => largeTextLayout.lineCount <= LARGE_TEXT_MAX_LINES
    /\ \A id \in DOMAIN smallTextLayouts :
           /\ SMALL_TEXT_MIN_FONT_SIZE <= smallTextLayouts[id].fontSize
           /\ smallTextLayouts[id].fontSize <= SMALL_TEXT_DEFAULT_FONT_SIZE
           /\ ~smallTextOverflowReported(id) =>
                  smallTextLayouts[id].lineCount <= SMALL_TEXT_MAX_LINES

\* The same for the large text alone.
LargeTextSizeInRangeAndLinesCapped ==
    /\ LARGE_TEXT_MIN_FONT_SIZE <= largeTextLayout.fontSize
    /\ largeTextLayout.fontSize <= LARGE_TEXT_DEFAULT_FONT_SIZE
    /\ largeTextWarning = NoNotice => largeTextLayout.lineCount <= LARGE_TEXT_MAX_LINES

\* C20, as stated: the large text that is laid out has at most three lines.
C20_LargeTextLinesCapped == TextLines(trimmedLargeText) <= LARGE_TEXT_MAX_LINES

\* The font size the autofit is to arrive at, given whether a size fits:
\* the default size when it fits, otherwise the largest fitting size below
\* it, and the minimum when no size fits.
LargestFitting(Fits(_), min, default) ==
    IF Fits(default) THEN default
    ELSE IF \E size \in min..(default - 1) : Fits(size)
    THEN CHOOSE size \in min..(default - 1) :
             Fits(size) /\ \A larger \in (size + 1)..(default - 1) : ~Fits(larger)
    ELSE min

NoneFits(Fits(_), min, default) == \A size \in min..default : ~Fits(size)

LargeTextFitted == depLargeText = largeTextDeps /\ trimmedLargeText # <<>>
SmallTextFitted(i) == depBooks = books /\ Trim(books[i].title) # <<>>

LargeTextIsLargestFitting ==
    LargeTextFitted =>
        /\ largeTextLayout.fontSize =
               LargestFitting(fitsLargeText, LARGE_TEXT_MIN_FONT_SIZE,
                              LARGE_TEXT_DEFAULT_FONT_SIZE)
        /\ NoneFits(fitsLargeText, LARGE_TEXT_MIN_FONT_SIZE, LARGE_TEXT_DEFAULT_FONT_SIZE)
               => largeTextWarning # NoNotice

SmallTextIsLargestFitting ==
    \A i \in 1..Len(books) : SmallTextFitted(i) =>
        LET Fits(size) == fitsSmallText(books[i], size)
        IN  /\ smallTextLayouts[books[i].id].fontSize =
                   LargestFitting(Fits, SMALL_TEXT_MIN_FONT_SIZE, SMALL_TEXT_DEFAULT_FONT_SIZE)
            /\ NoneFits(Fits, SMALL_TEXT_MIN_FONT_SIZE, SMALL_TEXT_DEFAULT_FONT_SIZE)
                   => smallTextOverflowReported(books[i].id)

\* C19, as stated: whatever the layout engine, a fitted text has the default
\* size when that fits, otherwise the largest size from the minimum to the
\* default less one that fits, and when no size fits it has the minimum size
\* and an overflow is reported; for the large text and for every title.
C19_AutofitReturnsLargestFittingSize ==
    LargeTextIsLargestFitting /\ SmallTextIsLargestFitting

\* The size is the largest fitting one for both fields, and the large text
\* reports the overflow when no size fits.
LargestFittingSizeChosen ==
    /\ LargeTextIsLargestFitting
    /\ \A i \in 1..Len(books) : SmallTextFitted(i) =>
           LET Fits(size) == fitsSmallText(books[i], size)
           IN  smallTextLayouts[books[i].id].fontSize =
                   LargestFitting(Fits, SMALL_TEXT_MIN_FONT_SIZE,
                                  SMALL_TEXT_DEFAULT_FONT_SIZE)

\* The sum of the spine widths of the first i books of the list.
SpineTotal ==
    LET upTo[i \in 0..Len(books)] == IF i = 0 THEN 0 ELSE upTo[i - 1] + books[i].spineWidth
    IN  upTo[Len(books)]

\* C21: for a list of n >= 1 books totalWidthMm is the sum of the spine
\* widths plus 2 mm for each of the n - 1 gaps; it is 0 for the empty list,
\* and 72 for spines of 30 and 40.
C21_TotalWidthIsSpinesPlusGaps ==
    /\ Len(books) >= 1 => totalWidthMm = SpineTotal + 2 * (Len(books) - 1)
    /\ totalWidthMmOf(<<>>) = 0
    /\ totalWidthMmOf(<<[spineWidth |-> 30], [spineWidth |-> 40]>>) = 72

\* Two books or more, one of them with an edited spine width.
C21_Witness ==
    /\ Len(books) >= 2
    /\ \E i \in 1..Len(books) : books[i].spineWidth # createBook(0).spineWidth

\* The least integer at or above a / b, for b > 0.
CeilDiv(a, b) == -((-a) \div b)

\* ceil(100 x max(requiredW / baseW, requiredH / baseH)) in whole numbers.
\* The base size is the artwork scaled to the height of the tallest book, so
\* in the two quotients the pixels per millimetre cancel:
\*   requiredW / baseW = (stack width + 2 x wrap margin) x image height
\*                       / (image width x tallest height),
\*   requiredH / baseH = (tallest height + top margin) / tallest height.
\* With no height to scale to, the base size is the image's own size in
\* pixels and the required size is taken at 480/127 pixels per millimetre.
RequiredPercent ==
    IF maxHeightMm > 0
    THEN IMax(CeilDiv(100 * (totalWidthMm + 2 * WRAP_MARGIN_MM) * image.height,
                      image.width * maxHeightMm),
              CeilDiv(100 * (maxHeightMm + TOP_MARGIN_MM), maxHeightMm))
    ELSE IMax(CeilDiv(100 * (totalWidthMm + 2 * WRAP_MARGIN_MM) * 480, 127 * image.width),
              CeilDiv(100 * TOP_MARGIN_MM * 480, 127 * image.height))

\* C22: with artwork, minZoomPercent is ceil(100 x max(requiredW / baseW,
\* requiredH / baseH)) clamped to [50, 200]; with or without artwork it
\* lies in [50, 200].
C22_MinZoomIsClampedRequiredPercent ==
    /\ ZOOM_FLOOR <= minZoomPercent /\ minZoomPercent <= ZOOM_MAX
    /\ HasImage => minZoomPercent = IMin(IMax(RequiredPercent, ZOOM_FLOOR), ZOOM_MAX)

\* Artwork that would need more than 200 percent: the clamp is in effect.
C22_Witness == HasImage /\ RequiredPercent > ZOOM_MAX /\ Quiescent

\* Extra heights in pixels on both sides of topMarginPx, beside the one of
\* the current state.
ExtraHeights ==
    {RMul(topMarginPx, factor) :
         factor \in {R(1, 100), R(1, 2), ROne, R(101, 100), R(3, 2), FromInt(2),
                     FromInt(3), FromInt(50), FromInt(1000)}}

\* C23, as stated: with artwork, minVerticalOffsetPercent is 100 for every
\* extraHeight that is at most topMarginPx.
C23_FullOffsetUpToTopMargin ==
    HasImage =>
        \A extra \in ExtraHeights \cup {extraHeight} :
            RLe(extra, topMarginPx) =>
                minVerticalOffsetPercentOf(TRUE, extra) = FromInt(100)

\* C23, amended: the same for every extraHeight above 0 and at most
\* topMarginPx.
C23_FullOffsetForPositiveExtraUpToTopMargin ==
    HasImage =>
        \A extra \in ExtraHeights \cup {extraHeight} :
            (RLt(RZero, extra) /\ RLe(extra, topMarginPx)) =>
                minVerticalOffsetPercentOf(TRUE, extra) = FromInt(100)

\* Artwork that overhangs the stack by no more than the top margin.
C23_Witness ==
    /\ HasImage /\ RLt(RZero, extraHeight) /\ RLe(extraHeight, topMarginPx)
    /\ minVerticalOffsetPercent = FromInt(100)

\* Monotonicity of minVerticalOffsetPercent over the extra heights whose
\* smaller one `admits` allows, and its range.
OffsetMonotoneFrom(admits(_)) ==
    \A e1, e2 \in ExtraHeights \cup {extraHeight} :
        (RLe(e2, e1) /\ admits(e2)) =>
            RLe(minVerticalOffsetPercentOf(TRUE, e1), minVerticalOffsetPercentOf(TRUE, e2))

OffsetWithinRange ==
    \A extra \in ExtraHeights \cup {extraHeight} :
        \A hasImage \in BOOLEAN :
            /\ RLe(FromInt(-100), minVerticalOffsetPercentOf(hasImage, extra))
            /\ RLe(minVerticalOffsetPercentOf(hasImage, extra), FromInt(100))

\* C24, as stated: with artwork, for all extra heights e1 >= e2 >= 0 the
\* minimum vertical offset at e1 is at most the one at e2, and the value is
\* always in [-100, 100].
C24_OffsetMonotoneFromZero ==
    /\ HasImage => OffsetMonotoneFrom(LAMBDA e : RLe(RZero, e))
    /\ OffsetWithinRange

\* C24, amended: the same for all extra heights e1 >= e2 > 0.
C24_OffsetMonotoneAboveZero ==
    /\ HasImage => OffsetMonotoneFrom(LAMBDA e : RLt(RZero, e))
    /\ OffsetWithinRange

\* Artwork whose extra height is above the top margin, so that the minimum
\* offset is strictly between the ends of its range.
C24_Witness ==
    /\ HasImage /\ RLt(topMarginPx, extraHeight)
    /\ RLt(FromInt(-100), minVerticalOffsetPercent)
    /\ RLt(minVerticalOffsetPercent, FromInt(100))

\* C25: on the page of book i (the PDF page and the Section 4 page) the
\* spine of book i is centred horizontally, its two guide lines at equal
\* distances from the page's centre line, and of all the spine boxes laid
\* out on the page only the one of book i is visible.
C25_OwnSpineCentredAndAloneVisible ==
    \A i \in 1..Len(books) : \A page \in {pdfPage(i)} :
        /\ RAdd(page.spineLeftMm, page.spineRightMm) = PAGE_WIDTH_MM
        /\ RSub(page.spineRightMm, page.spineLeftMm) = FromInt(books[i].spineWidth)
        /\ pdfSpineCenterXMm(page) = RHalf(PAGE_WIDTH_MM)
        /\ section4SpineCenterX(i) = RZero
        /\ \A j \in 1..Len(books) : section4SpineVisible(i, j) <=> j = i

\* Two books of different spine widths, so that neither spine is at the
\* centre of the stack, and the other book's box is hidden on each page.
C25_Witness ==
    /\ Len(books) = 2
    /\ books[1].spineWidth # books[2].spineWidth
    /\ centerShiftPx(1) # RZero /\ centerShiftPx(2) # RZero
    /\ ~section4SpineVisible(1, 2) /\ ~section4SpineVisible(2, 1)

\* What the two layout effects arrive at for the current texts and boxes.
largeTextAutofit ==
    IF trimmedLargeText = <<>> THEN DefaultLargeTextLayout
    ELSE largeTextFitted(largeTextBest).layout

\* No render, passive effect or layout effect is outstanding.
Settled == Quiescent /\ ~LayoutEffectsDue

\* C26: when nothing is outstanding, the stored large text layout and every
\* book's stored small text layout are the autofit results for the current
\* text and the current box.
C26_StoredLayoutsAreTheAutofitResults ==
    Settled =>
        /\ largeTextLayout = largeTextAutofit
        /\ smallTextLayouts = nextLayouts

\* A settled state whose large text was refitted for a lower box.
C26_Witness ==
    /\ Settled
    /\ trimmedLargeText # <<>>
    /\ maxHeightMm < createBook(0).height
    /\ largeTextLayout = largeTextAutofit
    /\ largeTextLayout.fontSize < LARGE_TEXT_DEFAULT_FONT_SIZE

\* A step changes the list in one of three ways: one book keeps its id and
\* place and gets other fields, one book with an id above every id handed
\* out so far is appended, or one book leaves; every other book stays as it
\* is, in its place.
OneBookTouched ==
    \/ books' = books
    \/ /\ Len(books') = Len(books)
       /\ \E k \in 1..Len(books) :
              /\ books' = [books EXCEPT ![k] = books'[k]]
              /\ books'[k].id = books[k].id
    \/ /\ Len(books') = Len(books) + 1
       /\ SubSeq(books', 1, Len(books)) = books
       /\ books'[Len(books')].id > bookIdCounter
    \/ \E k \in 1..Len(books) : books' = WithoutIndex(books, k)

\* updateBook(id, ...) and removeBook(id) leave every book of another id as
\* it is.
OthersUntouched ==
    /\ \A id \in BookIds, edit \in ViewEdits :
           updateBook(id, edit[1], edit[2]) =>
               \A i \in 1..Len(books) : books[i].id # id => books'[i] = books[i]
    /\ \A id \in BookIds :
           (Len(books) > 1 /\ removeBook(id)) =>
               \A i \in 1..Len(books) :
                   books[i].id # id => \E j \in 1..Len(books') : books'[j] = books[i]

\* C27: the ids in the list are pairwise distinct; every id handed out is at
\* most bookIdCounter, which never decreases, and a new book's id is above
\* it, so that the id of a removed book does not come back; and a step of
\* addBook, removeBook or updateBook changes no book but the targeted one.
C27_IdsDistinctNeverReusedOthersUntouched ==
    /\ [](/\ \A i, j \in 1..Len(books) : books[i].id = books[j].id => i = j
          /\ \A i \in 1..Len(books) : books[i].id <= bookIdCounter)
    /\ [][/\ bookIdCounter' >= bookIdCounter
          /\ OneBookTouched
          /\ OthersUntouched]_vars

\* Two books after the first book was removed and another one added.
C27_Witness ==
    /\ Len(books) = 2
    /\ \A i \in 1..2 : books[i].id # 1
    /\ bookIdCounter > 2

\* The preview artwork's top and bottom edge, in pixels from the top of the
\* stack box.
previewArtworkTop == RSub(previewArtworkCenterY, RHalf(artworkDisplayHeight))
previewArtworkBottom == RAdd(previewArtworkCenterY, RHalf(artworkDisplayHeight))

\* The artwork reaches topMarginPx above the stack box and down to its
\* bottom edge at least.
CoversStackHeight ==
    /\ RLe(previewArtworkTop, RNeg(topMarginPx))
    /\ RLe(maxHeightPx, previewArtworkBottom)

\* The zoom that the stack's height plus the top margin needs is within the
\* zoom range.
HeightZoomAttainable ==
    RLe(RMul(minimumArtworkHeightPx, FromInt(100)),
        RMul(baseArtworkHeightPx, FromInt(ZOOM_MAX)))

C29_ReclampChainSettles ==
    /\ [](zoomAdjusts <= 1 /\ offsetYAdjusts <= 1)
    /\ [][/\ (FlushEffects /\ zoom' # zoom) => (zoomAdjusts = 0 /\ offsetYAdjusts = 0)
          /\ (FlushEffects /\ zoom' = zoom /\ offsetY' = offsetY) => phase' = "idle"
          /\ (Render \/ FlushEffects) => minZoomPercent' = minZoomPercent]_vars

\* A chain in which the first pass raised the zoom and the second pass
\* raised the vertical offset.
C29_Witness ==
    /\ HasImage /\ phase = "render"
    /\ zoomAdjusts = 1 /\ offsetYAdjusts = 1
    /\ zoom = minZoomPercent /\ offsetY = minVerticalOffsetPercent

\* The current artwork is below MIN_IMAGE_WIDTH x MIN_IMAGE_HEIGHT pixels.
BelowPrintSize ==
    HasImage /\ (image.width < MIN_IMAGE_WIDTH \/ image.height < MIN_IMAGE_HEIGHT)

\* C30, as stated: while the current artwork is below 3300x5100 pixels the
\* export asks for the low-resolution confirmation, and a call of the
\* export that is answered with "no" changes no state, whatever uploads
\* came before.
C30_LowResolutionExportIsConfirmed ==
    /\ [](BelowPrintSize => isLowResolutionArtwork)
    /\ [][(BelowPrintSize /\ handleExportPdf(FALSE)) => UNCHANGED vars]_vars

=============================================================================
